---- MODULE Spec2Model ----
(***************************************************************************)
(* Model of the CSV-to-RDF conversion of prisoners-of-war records          *)
(* (csv_to_rdf.py, mapping.py).  Field values are sequences of one-        *)
(* character strings, so that trimming, splitting and the source pattern   *)
(* are computed rather than assumed.  Graphs are sets of triples.          *)
(***************************************************************************)
EXTENDS Integers, Sequences, FiniteSets, TLC

VARIABLES pc,       \* position of the __main__ script
          file,     \* the input CSV: [header, rows] of raw cells
          table,    \* RDFMapper.table after read_csv: [header, rows] of typed cells
          index,    \* loop variable of process_rows: next row to map
          data,     \* RDFMapper.data
          schema,   \* RDFMapper.schema
          written,  \* the two output files exist
          text,     \* argument of read_column_with_sources (second specification)
          result    \* its return value, once called

vars == <<pc, file, table, index, data, schema, written, text, result>>

(***************************************************************************)
(* Bounds                                                                  *)
(***************************************************************************)
MaxRows == 2      \* rows in the input file
MaxTokens == 6    \* tokens in the text given to read_column_with_sources

(***************************************************************************)
(* Character strings                                                       *)
(***************************************************************************)
Digits == <<"0", "1", "2", "3", "4", "5", "6", "7", "8", "9">>
UpperChars == <<"A", "H", "J", "K", "M", "S", "V", "Ä">>
LowerChars == <<"a", "h", "j", "k", "m", "s", "v", "ä">>

IsSpace(c) == c \in {" ", "\t"}
IsDigit(c) == \E k \in 1..10 : Digits[k] = c
DigitVal(c) == (CHOOSE k \in 1..10 : Digits[k] = c) - 1

\* str.strip()
RECURSIVE lstrip(_)
lstrip(s) == IF s # <<>> /\ IsSpace(Head(s)) THEN lstrip(Tail(s)) ELSE s

RECURSIVE rstrip(_)
rstrip(s) ==
  IF s # <<>> /\ IsSpace(s[Len(s)]) THEN rstrip(SubSeq(s, 1, Len(s) - 1)) ELSE s

strip(s) == rstrip(lstrip(s))

\* str.lower()
LowerChar(c) ==
  IF \E k \in 1..Len(UpperChars) : UpperChars[k] = c
  THEN LowerChars[CHOOSE k \in 1..Len(UpperChars) : UpperChars[k] = c]
  ELSE c

lower(s) == [k \in 1..Len(s) |-> LowerChar(s[k])]

\* str.split(c) for a one-character separator
RECURSIVE SplitChar(_, _)
SplitChar(s, c) ==
  IF \E k \in 1..Len(s) : s[k] = c
  THEN LET k == CHOOSE j \in 1..Len(s) : s[j] = c /\ \A i \in 1..(j - 1) : s[i] # c
       IN <<SubSeq(s, 1, k - 1)>> \o SplitChar(SubSeq(s, k + 1, Len(s)), c)
  ELSE <<s>>

\* re.split(r'\s/\s', s)
RECURSIVE re_split_slash(_)
re_split_slash(s) ==
  LET Hit(j) == j + 2 <= Len(s) /\ IsSpace(s[j]) /\ s[j + 1] = "/" /\ IsSpace(s[j + 2])
  IN IF \E k \in 1..Len(s) : Hit(k)
     THEN LET k == CHOOSE j \in 1..Len(s) : Hit(j) /\ \A i \in 1..(j - 1) : ~Hit(i)
          IN <<SubSeq(s, 1, k - 1)>> \o re_split_slash(SubSeq(s, k + 3, Len(s)))
     ELSE <<s>>

AllDigits(s) == s # <<>> /\ \A k \in 1..Len(s) : IsDigit(s[k])

\* int(s) for a string of digits
RECURSIVE ParseInt(_)
ParseInt(s) ==
  IF s = <<>> THEN 0 ELSE 10 * ParseInt(SubSeq(s, 1, Len(s) - 1)) + DigitVal(s[Len(s)])

\* str(n) for a non-negative integer
RECURSIVE IntToChars(_)
IntToChars(n) ==
  IF n < 10 THEN <<Digits[n + 1]>> ELSE IntToChars(n \div 10) \o <<Digits[(n % 10) + 1]>>

(***************************************************************************)
(* Python values: str, int, datetime.date, None                            *)
(***************************************************************************)
Str(s) == [kind |-> "str", s |-> s, num |-> <<>>]
IntVal(n) == [kind |-> "int", s |-> <<>>, num |-> <<n>>]
Date(y, m, d) == [kind |-> "date", s |-> <<>>, num |-> <<y, m, d>>]
Year(y) == [kind |-> "year", s |-> <<>>, num |-> <<y>>]
None == [kind |-> "none", s |-> <<>>, num |-> <<>>]

\* truth value of a Python object, as tested by "if value:"
Truthy(v) ==
  CASE v.kind = "none" -> FALSE
    [] v.kind = "str" -> v.s # <<>>
    [] v.kind = "int" -> v.num[1] # 0
    [] OTHER -> TRUE

\* str(value)
py_str(v) ==
  CASE v.kind = "int" -> IntToChars(v.num[1])
    [] OTHER -> v.s

(***************************************************************************)
(* converters.py is not part of the available sources; the converters are  *)
(* modelled from their description.                                        *)
(***************************************************************************)
LeadingDigits(s) ==
  LET n == CHOOSE k \in 0..Len(s) :
             /\ \A i \in 1..k : IsDigit(s[i])
             /\ (k < Len(s) => ~IsDigit(s[k + 1]))
  IN SubSeq(s, 1, n)

\* leading integer; a dash or non-numeric content is absent
convert_int(s) ==
  LET d == LeadingDigits(strip(s))
  IN IF d = <<>> THEN None ELSE IntVal(ParseInt(d))

\* a standalone dash is absent
strip_dash(v) == IF v.kind = "str" /\ v.s = <<"-">> THEN Str(<<>>) ELSE v

IsLeap(y) == (y % 4 = 0 /\ y % 100 # 0) \/ y % 400 = 0

DaysIn(y, m) ==
  CASE m \in {4, 6, 9, 11} -> 30
    [] m = 2 -> IF IsLeap(y) THEN 29 ELSE 28
    [] OTHER -> 31

\* D.M.YYYY is a calendar date, a bare four-digit year a year-only value,
\* anything else absent
convert_dates(v) ==
  LET s == strip(v.s)
      parts == SplitChar(s, ".")
  IN IF v.kind # "str" THEN None
     ELSE IF Len(parts) = 3 /\ \A k \in 1..3 : AllDigits(parts[k])
     THEN LET d == ParseInt(parts[1])
              m == ParseInt(parts[2])
              y == ParseInt(parts[3])
          IN IF Len(parts[3]) = 4 /\ m \in 1..12 /\ d \in 1..DaysIn(y, m)
             THEN Date(y, m, d)
             ELSE None
     ELSE IF Len(s) = 4 /\ AllDigits(s) THEN Year(ParseInt(s))
     ELSE None

\* family name first, given names after it; returns
\* <<given names, family name, full display name>>
convert_person_name(v) ==
  LET s == strip(py_str(v))
      HasSp == \E k \in 1..Len(s) : IsSpace(s[k])
      sp == CHOOSE k \in 1..(Len(s) + 1) :
              /\ (k <= Len(s) => IsSpace(s[k]))
              /\ \A i \in 1..(k - 1) : ~IsSpace(s[i])
      lastname == SubSeq(s, 1, sp - 1)
      firstnames == IF HasSp THEN strip(SubSeq(s, sp + 1, Len(s))) ELSE <<>>
      fullname == IF firstnames = <<>> THEN lastname ELSE firstnames \o <<" ">> \o lastname
  IN <<Str(firstnames), Str(lastname), Str(fullname)>>

Convert(name, v) ==
  CASE name = "convert_dates" -> convert_dates(v)
    [] name = "strip_dash" -> strip_dash(v)
    [] name = "convert_int" -> convert_int(v.s)
    [] name = "lower" -> Str(lower(v.s))
    [] OTHER -> v

(***************************************************************************)
(* Namespaces (csv_to_rdf.py) and the mapping table (mapping.py).  A       *)
(* descriptor is a record holding exactly the keys its dictionary has.     *)
(***************************************************************************)
FOAF == "http://xmlns.com/foaf/0.1/"
SKOS == "http://www.w3.org/2004/02/skos/core#"
BIOC == "http://ldf.fi/schema/bioc/"
RDF == "http://www.w3.org/1999/02/22-rdf-syntax-ns#"
XSD == "http://www.w3.org/2001/XMLSchema#"
DATA_NS == "http://ldf.fi/warsa/prisoners/"
SCHEMA_NS == "http://ldf.fi/schema/warsa/prisoners/"

PRISONER_MAPPING ==
  <<
    [column |-> "syntymäaika",
     uri |-> SCHEMA_NS \o "birth_date",
     converter |-> "convert_dates",
     value_separator |-> "/",
     name_fi |-> "Syntymäaika",
     name_en |-> "Date of birth"],
    [column |-> "syntymäpaikka",
     uri |-> SCHEMA_NS \o "birth_place",
     value_separator |-> "/",
     name_fi |-> "Syntymäkunta",
     name_en |-> "Municipality of birth"],
    [column |-> "kotipaikka",
     uri |-> SCHEMA_NS \o "home_place",
     value_separator |-> "/",
     name_fi |-> "Kotikunta",
     name_en |-> "Home municipality"],
    [column |-> "asuinpaikka",
     uri |-> SCHEMA_NS \o "residence_place",
     name_fi |-> "Asuinpaikka",
     name_en |-> "Municipality of residence",
     value_separator |-> "/"],
    [column |-> "ammatti",
     uri |-> BIOC \o "has_occupation",
     name_fi |-> "Ammatti",
     name_en |-> "Occupation",
     value_separator |-> "/"],
    [column |-> "siviilisääty",
     uri |-> SCHEMA_NS \o "marital_status",
     name_fi |-> "Siviilisääty",
     name_en |-> "Marital Status",
     value_separator |-> "/"],
    [column |-> "lasten lkm",
     uri |-> SCHEMA_NS \o "amount_children",
     converter |-> "strip_dash",
     name_fi |-> "Lasten lukumäärä",
     name_en |-> "Amount of children",
     value_separator |-> "/"],
    [column |-> "sotilasarvo",
     uri |-> SCHEMA_NS \o "rank",
     name_fi |-> "Sotilasarvo",
     name_en |-> "Military Rank",
     value_separator |-> "/"],
    [column |-> "joukko-osasto",
     uri |-> SCHEMA_NS \o "unit",
     name_en |-> "Military Unit",
     name_fi |-> "Joukko-osasto"],
    [column |-> "vangiksi aika",
     uri |-> SCHEMA_NS \o "time_captured",
     converter |-> "convert_dates",
     value_separator |-> "/",
     name_en |-> "Date captured",
     name_fi |-> "Vangiksi jäämisen päivämäärä"],
    [column |-> "vangiksi paikka, kunta",
     uri |-> SCHEMA_NS \o "place_captured_municipality",
     value_separator |-> "/",
     name_en |-> "Municipality where captured",
     name_fi |-> "Vangiksi jäämisen kunta"],
    [column |-> "vangiksi paikka, kylä, kaupunginosa",
     uri |-> SCHEMA_NS \o "place_captured",
     value_separator |-> "/",
     name_en |-> "Place where captured",
     name_fi |-> "Vangiksi jäämisen paikka"],
    [column |-> "vangiksi, taistelupaikka",
     uri |-> SCHEMA_NS \o "place_captured_battle",
     value_separator |-> "/",
     name_en |-> "Battle location where captured",
     name_fi |-> "Vangiksi jäämisen taistelupaikka"],
    [column |-> "selvitys vangiksi jäämisestä",
     uri |-> SCHEMA_NS \o "explanation",
     name_en |-> "Description of capturing",
     name_fi |-> "Selvitys vangiksi jäämisestä"],
    [column |-> "palannut",
     uri |-> SCHEMA_NS \o "returned_date",
     converter |-> "convert_dates",
     value_separator |-> "/",
     name_en |-> "Date of returning",
     name_fi |-> "Palaamisaika"],
    [column |-> "kuollut",
     uri |-> SCHEMA_NS \o "death_date",
     converter |-> "convert_dates",
     value_separator |-> "/",
     name_en |-> "Date of death",
     name_fi |-> "Kuolinaika"],
    [column |-> "kuolinsyy",
     uri |-> SCHEMA_NS \o "cause_of_death",
     name_en |-> "Cause of death",
     name_fi |-> "Kuolinsyy"],
    [column |-> "kuolinpaikka",
     uri |-> SCHEMA_NS \o "death_place",
     value_separator |-> "/",
     name_en |-> "Place of death",
     name_fi |-> "kuolinpaikka"],
    [column |-> "hautauspaikka",
     uri |-> SCHEMA_NS \o "burial_place",
     value_separator |-> ";",
     name_en |-> "Place of burial",
     name_fi |-> "Hautauspaikka"],
    [column |-> "vankeuspaikat",
     uri |-> SCHEMA_NS \o "camps_and_hospitals",
     value_separator |-> ";",
     reify_order_number |-> TRUE,
     name_en |-> "Captivity locations",
     name_fi |-> "Vankeuspaikat"],
    [column |-> " muita tietoja",
     uri |-> SCHEMA_NS \o "other_information",
     value_separator |-> ";",
     name_fi |-> "Muita tietoja",
     name_en |-> "Other information"],
    [column |-> "palanneiden kuolinaika",
     uri |-> SCHEMA_NS \o "death_date",
     converter |-> "convert_dates",
     value_separator |-> "/"],
    [column |-> "valokuva",
     uri |-> SCHEMA_NS \o "photograph",
     name_fi |-> "Valokuva",
     name_en |-> "Photograph"],
    [column |-> "radiossa, PM:n valvontatoimiston radiokatsaukset",
     uri |-> SCHEMA_NS \o "radio_report",
     value_separator |-> ";",
     name_en |-> "Radio report",
     name_fi |-> "Radiokatsaus"],
    [column |-> "Jatkosodan VEN kuulustelulomakkeet F 473, palautetut",
     uri |-> SCHEMA_NS \o "russian_interrogation_sheets",
     value_separator |-> ";",
     name_en |-> "Russian interrogation sheets",
     name_fi |-> "Jatkosodan venäläiset kuulustelulomakkeet"],
    [column |-> "Talvisodan kortisto",
     uri |-> SCHEMA_NS \o "winterwar_card_file",
     name_en |-> "Winter War card file",
     name_fi |-> "Talvisodan kortisto"],
    [column |-> "takavarikoitu omaisuus, arvo markoissa",
     uri |-> SCHEMA_NS \o "confiscated_possessions",
     name_en |-> "Confiscated possessions",
     name_fi |-> "takavarikoitu omaisuus, arvo markoissa"],
    [column |-> "suomenruotsalainen",
     uri |-> SCHEMA_NS \o "swedish_finn",
     name_en |-> "Swedish finn",
     name_fi |-> "Suomenruotsalainen"],
    [column |-> "Karagandan kortisto",
     uri |-> SCHEMA_NS \o "karaganda_card_file",
     name_en |-> "Karaganda card file",
     name_fi |-> "Karagandan kortisto"],
    [column |-> "Jatkosodan kortisto",
     uri |-> SCHEMA_NS \o "continuation_war_card_file",
     name_en |-> "Continuation War card file",
     name_fi |-> "Jatkosodan kortisto"],
    [column |-> "Jatkosodan VEN kuulustelulomakkeet, kuolleet F 465",
     uri |-> SCHEMA_NS \o "continuation_war_russian_card_file",
     name_en |-> "Continuation War russian card file",
     name_fi |-> "Kuolleiden Jatkosodan venäläiset kuulustelulomakkeet"],
    [column |-> "Talvisodan kokoelma",
     uri |-> SCHEMA_NS \o "winter_war_collection",
     name_en |-> "Winter War collection",
     name_fi |-> "Talvisodan kokoelma"],
    [column |-> "Talvisodan kokoelma, Moskovasta tulevat",
     uri |-> SCHEMA_NS \o "winter_war_collection_from_moscow",
     value_separator |-> ";",
     name_en |-> "Winter War collection (Moscow)",
     name_fi |-> "Talvisodan kokoelma (Moskovasta)"],
    [column |-> "lentolehtinen",
     uri |-> SCHEMA_NS \o "flyer",
     value_separator |-> ";",
     name_en |-> "Flyer",
     name_fi |-> "Lentolehtinen"],
    [column |-> "muistelmat, lehtijutut, tietokirjat, tutkimukset, Kansa taisteli-lehti",
     uri |-> SCHEMA_NS \o "memoirs",
     name_en |-> "Memoirs",
     name_fi |-> "Muistelmat ja lehtijutut"],
    [column |-> "TV-ja radio-ohjelmat, tallenne video/audio",
     uri |-> SCHEMA_NS \o "recording",
     name_en |-> "Recording (video/audio)",
     name_fi |-> "Tallenne (video/audio)"],
    [column |-> "Karjalan kansallisarkiston dokumentit",
     uri |-> SCHEMA_NS \o "karelian_archive_documents",
     name_en |-> "Karelian archive documents",
     name_fi |-> "Karjalan kansallisarkiston dokumentit"]
  >>

\* dict.get(key): None is modelled by the given default
Get(d, key, default) == IF key \in DOMAIN d THEN d[key] ELSE default

(***************************************************************************)
(* RDF terms and statements                                                *)
(***************************************************************************)
\* rdflib.Literal(value, datatype=..., lang=...)
Literal(v, dt, lang) == [term |-> "literal", value |-> v, datatype |-> dt, lang |-> lang, uri |-> ""]
\* rdflib.URIRef
URIRef(u) == [term |-> "uri", value |-> None, datatype |-> "", lang |-> "", uri |-> u]

PrisonerOfWar == SCHEMA_NS \o "PrisonerOfWar"

(***************************************************************************)
(* RDFMapper.read_column_with_sources                                      *)
(* The pattern of line 50 is: one or more characters, a blank, an opening  *)
(* parenthesis, one or more characters other than parentheses, a closing   *)
(* parenthesis, any rest.  re.search with a greedy first group matches at  *)
(* the last blank-and-parenthesis that opens such a group and has at least *)
(* one character in front of the blank.                                    *)
(***************************************************************************)
\* s[i..j] is: blank, "(", one or more non-parenthesis characters, ")"
source_group(s, i, j) ==
  /\ i >= 2
  /\ j >= i + 3
  /\ j <= Len(s)
  /\ s[i] = " "
  /\ s[i + 1] = "("
  /\ s[j] = ")"
  /\ \A k \in (i + 2)..(j - 1) : s[k] \notin {"(", ")"}

source_opens(s, i) == \E j \in 1..Len(s) : source_group(s, i, j)

\* a lazy first group would stop at the first such blank
source_match_first(s) ==
  IF \E i \in 1..Len(s) : source_opens(s, i)
  THEN CHOOSE i \in 1..Len(s) : source_opens(s, i) /\ \A b \in 1..(i - 1) : ~source_opens(s, b)
  ELSE 0

\* line 50: position of the blank the match takes, 0 when there is no match
source_match(s) ==
  IF \E i \in 1..Len(s) : source_opens(s, i)
  THEN CHOOSE i \in 1..Len(s) : source_opens(s, i) /\ \A b \in (i + 1)..Len(s) : ~source_opens(s, b)
  ELSE 0

read_column_with_sources(orig_value) ==
  LET s == orig_value
      n == Len(s)
      i == source_match(s)
  IN IF i # 0
     THEN LET j == CHOOSE c \in 1..n : source_group(s, i, c)
              sources == SplitChar(SubSeq(s, i + 2, j - 1), ",")
              trash == SubSeq(s, j + 1, n)
          IN [value |-> SubSeq(s, 1, i - 1),
              found |-> TRUE,
              sources |-> [k \in 1..Len(sources) |-> strip(sources[k])],
              warning |-> trash # <<>>]
     ELSE [value |-> s, found |-> FALSE, sources |-> <<>>, warning |-> FALSE]

(***************************************************************************)
(* RDFMapper.map_row_to_rdf                                                *)
(***************************************************************************)
HasColumn(header, column) == \E k \in 1..Len(header) : header[k] = column

\* row[column_name]
Cell(header, row, column) == row[CHOOSE k \in 1..Len(header) : header[k] = column]

\* a given-name statement that does not depend on the given names
name_statements_always(entity_uri, names) ==
  {<<entity_uri, FOAF \o "givenName", Literal(names[1], "", "")>>,
   <<entity_uri, FOAF \o "familyName", Literal(names[2], "", "")>>,
   <<entity_uri, SKOS \o "prefLabel", Literal(names[3], "", "")>>}

\* lines 73-79: the statements made from the identity field
name_statements(entity_uri, names) ==
  (IF Truthy(names[1])
   THEN {<<entity_uri, FOAF \o "givenName", Literal(names[1], "", "")>>}
   ELSE {})
  \cup {<<entity_uri, FOAF \o "familyName", Literal(names[2], "", "")>>,
        <<entity_uri, SKOS \o "prefLabel", Literal(names[3], "", "")>>}

\* line 87
type_statement(entity_uri) == <<entity_uri, RDF \o "type", URIRef(PrisonerOfWar)>>

\* line 89
slash_separated(mapping) == Get(mapping, "slash_separated", FALSE)

\* lines 94-95: the values of one field
values(mapping, value) ==
  IF slash_separated(mapping)
  THEN LET parts == re_split_slash(py_str(value))
       IN [k \in 1..Len(parts) |-> Str(strip(parts[k]))]
  ELSE <<Str(strip(py_str(value)))>>

\* lines 99-108: one value after source extraction and conversion
converted(mapping, value) ==
  LET v == IF slash_separated(mapping)
           THEN Str(read_column_with_sources(value.s).value)
           ELSE value
  IN Convert(Get(mapping, "converter", ""), v)

\* every value is emitted
survives_always(value) == TRUE

\* line 110
survives(value) == Truthy(value)

\* no type tag on dates
liter_untyped(value) == Literal(value, "", "")

\* line 111
liter(value) ==
  IF value.kind = "date" THEN Literal(value, XSD \o "date", "") ELSE Literal(value, "", "")

\* lines 87-112: the statements one mapped column adds
column_statements(entity_uri, mapping, value) ==
  LET vals == values(mapping, value)
  IN {type_statement(entity_uri)}
     \cup {<<entity_uri, mapping.uri, liter(converted(mapping, vals[k]))>> :
             k \in {j \in 1..Len(vals) : survives(converted(mapping, vals[j]))}}

\* lines 81-112: the loop over the mapping, from descriptor k on; a column the
\* row does not have raises KeyError and the statements built so far are lost
\* with the local graph
RECURSIVE map_columns(_, _, _, _, _)
map_columns(entity_uri, header, row, k, row_rdf) ==
  IF k > Len(PRISONER_MAPPING) THEN [ok |-> TRUE, rdf |-> row_rdf, error |-> ""]
  ELSE LET mapping == PRISONER_MAPPING[k]
       IN IF ~HasColumn(header, mapping.column)
          THEN [ok |-> FALSE, rdf |-> row_rdf, error |-> "KeyError"]
          ELSE map_columns(entity_uri, header, row, k + 1,
                 row_rdf \cup column_statements(entity_uri, mapping,
                                                Cell(header, row, mapping.column)))

map_row_to_rdf(entity_uri, header, row) ==
  IF Len(row) = 0 THEN [ok |-> FALSE, rdf |-> {}, error |-> "IndexError"]
  ELSE map_columns(entity_uri, header, row, 1,
                   name_statements(entity_uri, convert_person_name(row[1])))

(***************************************************************************)
(* RDFMapper.read_csv                                                      *)
(***************************************************************************)
\* converters={'ammatti': lambda x: x.lower(), 'lasten lkm': convert_int}
csv_converter(column) ==
  CASE column = "ammatti" -> "lower"
    [] column = "lasten lkm" -> "convert_int"
    [] OTHER -> ""

\* one cell: converter, fillna(''), strip() of strings
load_cell(column, raw) ==
  LET v == Convert(csv_converter(column), Str(raw))
      filled == IF v.kind = "none" THEN Str(<<>>) ELSE v
  IN IF filled.kind = "str" THEN Str(strip(filled.s)) ELSE filled

read_csv(input) ==
  [header |-> input.header,
   rows |-> [i \in 1..Len(input.rows) |->
               [k \in 1..Len(input.header) |-> load_cell(input.header[k], input.rows[i][k])]]]

(***************************************************************************)
(* RDFMapper.process_rows                                                  *)
(***************************************************************************)
\* str(index)
RECURSIVE py_str_int(_)
py_str_int(n) == IF n < 10 THEN ToString(n) ELSE py_str_int(n \div 10) \o ToString(n % 10)

\* an identifier that does not depend on the position
prisoner_uri_fixed(i) == DATA_NS \o "prisoner_"

\* line 161
prisoner_uri(i) == DATA_NS \o "prisoner_" \o py_str_int(i)

\* assignment instead of union
merged_data_replace(d, r) == IF r.ok THEN r.rdf ELSE d

\* the statements built before the error are merged
merged_data_partial(d, r) == d \cup r.rdf

\* line 162: self.data += map_row_to_rdf(...); a raised error leaves self.data as it was
merged_data(d, r) == IF r.ok THEN d \cup r.rdf ELSE d

\* the type statement is left out
schema_statements_label_only(prop) ==
  IF "name_fi" \in DOMAIN prop
  THEN {<<prop.uri, SKOS \o "prefLabel", Literal(Str(<<prop.name_fi>>), "", "fi")>>}
  ELSE {}

\* lines 165-167
schema_statements(prop) ==
  IF "name_fi" \in DOMAIN prop
  THEN {<<prop.uri, SKOS \o "prefLabel", Literal(Str(<<prop.name_fi>>), "", "fi")>>,
        <<prop.uri, RDF \o "type", URIRef(RDF \o "Property")>>}
  ELSE {}

\* lines 164-167: the loop over PRISONER_MAPPING.values(), from descriptor k on
RECURSIVE build_schema(_, _)
build_schema(k, g) ==
  IF k > Len(PRISONER_MAPPING) THEN g
  ELSE build_schema(k + 1, g \cup schema_statements(PRISONER_MAPPING[k]))

(***************************************************************************)
(* Input files                                                             *)
(***************************************************************************)
\* the identity column followed by the mapped columns
FullHeader == <<"nimi">> \o [k \in 1..Len(PRISONER_MAPPING) |-> PRISONER_MAPPING[k].column]

\* a file without the column 'ammatti'
ShortHeader == SelectSeq(FullHeader, LAMBDA c : c # "ammatti")

Headers == {FullHeader, ShortHeader}

RowPool ==
  {
    [nimi |-> <<"M", "e", "i", "k", "ä", "l", "ä", "i", "n", "e", "n", " ", "M", "a", "t", "t", "i">>,
     birth |-> <<"1", ".", "1", ".", "1", "9", "2", "0">>,
     place |-> <<>>,
     occupation |-> <<"M", "a", "a", "n", "v", "i", "l", "j", "e", "l", "i", "j", "ä">>,
     children |-> <<>>,
     unit |-> <<>>,
     burial |-> <<>>],
    [nimi |-> <<"V", "i", "r", "t", "a", "n", "e", "n">>,
     birth |-> <<>>,
     place |-> <<"a", " ", "/", " ", "b", " ", "/", " ", "c">>,
     occupation |-> <<>>,
     children |-> <<"-">>,
     unit |-> <<>>,
     burial |-> <<>>],
    [nimi |-> <<"V", "i", "r", "t", "a", "n", "e", "n", " ", "V", "i", "l", "l", "e", " ", "K", "a", "l", "l", "e">>,
     birth |-> <<"1", "9", "4", "1">>,
     place |-> <<" ", "a", " ">>,
     occupation |-> <<"S", "e", "p", "p", "ä">>,
     children |-> <<"2">>,
     unit |-> <<" ", "J", "R", " ", "1">>,
     burial |-> <<>>],
    [nimi |-> <<>>,
     birth |-> <<"x">>,
     place |-> <<"a", " ", "(", "S", ",", " ", "J", ")", " ", "k">>,
     occupation |-> <<>>,
     children |-> <<>>,
     unit |-> <<>>,
     burial |-> <<"a", " ", ";", " ", "b">>],
    [nimi |-> <<"A", "h", "o", " ", "J", "u", "s", "s", "i">>,
     birth |-> <<"3", "1", ".", "2", ".", "1", "9", "4", "0">>,
     place |-> <<"a", " ", "/", " ", " ", "/", " ", "b">>,
     occupation |-> <<>>,
     children |-> <<"0", " ", "x">>,
     unit |-> <<>>,
     burial |-> <<>>],
    [nimi |-> <<"A", "h", "o">>,
     birth |-> <<"2", "9", ".", "2", ".", "1", "9", "4", "0", " ", "/", " ", "1", "9", "4", "0">>,
     place |-> <<"a", "/", "b">>,
     occupation |-> <<>>,
     children |-> <<"x">>,
     unit |-> <<"J", "R", " ", "1", " ", "/", " ", "J", "R", " ", "2">>,
     burial |-> <<>>]
  }

raw_cell(r, column) ==
  CASE column = "nimi" -> r.nimi
    [] column = "syntymäaika" -> r.birth
    [] column = "syntymäpaikka" -> r.place
    [] column = "ammatti" -> r.occupation
    [] column = "lasten lkm" -> r.children
    [] column = "joukko-osasto" -> r.unit
    [] column = "hautauspaikka" -> r.burial
    [] OTHER -> <<>>

raw_row(header, r) == [k \in 1..Len(header) |-> raw_cell(r, header[k])]

RECURSIVE SeqsUpTo(_, _)
SeqsUpTo(S, n) ==
  IF n = 0 THEN {<<>>}
  ELSE LET shorter == SeqsUpTo(S, n - 1)
       IN shorter \cup {Append(q, x) : q \in {p \in shorter : Len(p) = n - 1}, x \in S}

Files ==
  {[header |-> h, rows |-> [i \in 1..Len(rs) |-> raw_row(h, rs[i])]] :
     h \in Headers, rs \in SeqsUpTo(RowPool, MaxRows)}

NoTable == [header |-> <<>>, rows |-> <<>>]
NotCalled == [value |-> <<>>, found |-> FALSE, sources |-> <<>>, warning |-> FALSE, called |-> FALSE]

(***************************************************************************)
(* The run of the script (lines 184-189)                                   *)
(***************************************************************************)
Init ==
  /\ pc = "read_csv"
  /\ file \in Files
  /\ table = NoTable
  /\ index = 0
  /\ data = {}
  /\ schema = {}
  /\ written = FALSE
  /\ text = <<>>
  /\ result = NotCalled

\* line 185
ReadCsv ==
  /\ pc = "read_csv"
  /\ table' = read_csv(file)
  /\ pc' = "process_rows"
  /\ UNCHANGED <<file, index, data, schema, written, text, result>>

\* the statement set of row i of the table (0-based, as in process_rows)
row_result(i) == map_row_to_rdf(prisoner_uri(i), table.header, table.rows[i + 1])

\* lines 160-162, one iteration that returns
ProcessRow ==
  /\ pc = "process_rows"
  /\ index < Len(table.rows)
  /\ row_result(index).ok
  /\ data' = merged_data(data, row_result(index))
  /\ index' = index + 1
  /\ UNCHANGED <<pc, file, table, schema, written, text, result>>

\* the error is swallowed and the loop goes on
ProcessRowRaises_swallowed ==
  /\ pc = "process_rows"
  /\ index < Len(table.rows)
  /\ ~row_result(index).ok
  /\ index' = index + 1
  /\ UNCHANGED <<pc, file, table, data, schema, written, text, result>>

\* lines 160-162, one iteration in which map_row_to_rdf raises: the error
\* leaves process_rows and the script
ProcessRowRaises ==
  /\ pc = "process_rows"
  /\ index < Len(table.rows)
  /\ ~row_result(index).ok
  /\ data' = merged_data(data, row_result(index))
  /\ pc' = "aborted"
  /\ UNCHANGED <<file, table, index, schema, written, text, result>>

\* lines 164-167, after the last row
BuildSchema ==
  /\ pc = "process_rows"
  /\ index = Len(table.rows)
  /\ schema' = build_schema(1, schema)
  /\ pc' = "serialize"
  /\ UNCHANGED <<file, table, index, data, written, text, result>>

\* line 189
Serialize ==
  /\ pc = "serialize"
  /\ written' = TRUE
  /\ pc' = "done"
  /\ UNCHANGED <<file, table, index, data, schema, text, result>>

Next == ReadCsv \/ ProcessRow \/ ProcessRowRaises \/ BuildSchema \/ Serialize

Spec == Init /\ [][Next]_vars

(***************************************************************************)
(* read_column_with_sources as a function of its argument                  *)
(***************************************************************************)
\* the texts are built from these pieces
SourceTokens == {<<"H">>, <<" ">>, <<" ", "(", "H">>, <<"(">>, <<")">>, <<",">>}

RECURSIVE Flatten(_)
Flatten(q) == IF q = <<>> THEN <<>> ELSE Head(q) \o Flatten(Tail(q))

Texts == {Flatten(q) : q \in SeqsUpTo(SourceTokens, MaxTokens)}

InitSources ==
  /\ pc = "sources"
  /\ file = NoTable
  /\ table = NoTable
  /\ index = 0
  /\ data = {}
  /\ schema = {}
  /\ written = FALSE
  /\ text \in Texts
  /\ result = NotCalled

CallReadColumn ==
  /\ pc = "sources"
  /\ ~result.called
  /\ result' = read_column_with_sources(text) @@ [called |-> TRUE]
  /\ UNCHANGED <<pc, file, table, index, data, schema, written, text>>

NextSources == CallReadColumn

SpecSources == InitSources /\ [][NextSources]_vars

(***************************************************************************)
(* Properties                                                              *)
(***************************************************************************)
Loaded == pc # "read_csv" /\ pc # "sources"

\* rows that process_rows has mapped and merged
Merged == 0..(index - 1)

\* the statements of the data graph about row i
about(i) == {t \in data : t[1] = DATA_NS \o "prisoner_" \o ToString(i)}

\* the objects the data graph gives row i under a predicate
objects(i, predicate) == {t[3] : t \in {u \in about(i) : u[2] = predicate}}

given_names(i) == convert_person_name(table.rows[i + 1][1])[1]

\* C6: every mapped row has exactly one familyName and one prefLabel
\* statement, has a givenName statement exactly when its decomposed given
\* names are non-empty, and so has 2 or 3 name statements.
C6_NameStatements ==
  Loaded =>
    \A i \in Merged :
      LET names == {t \in about(i) :
                      t[2] \in {FOAF \o "givenName", FOAF \o "familyName", SKOS \o "prefLabel"}}
      IN /\ Cardinality(names) \in {2, 3}
         /\ Cardinality({t \in names : t[2] = FOAF \o "familyName"}) = 1
         /\ Cardinality({t \in names : t[2] = SKOS \o "prefLabel"}) = 1
         /\ Cardinality({t \in names : t[2] = FOAF \o "givenName"}) <= 1
         /\ (\E t \in names : t[2] = FOAF \o "givenName") <=> (given_names(i).s # <<>>)
         /\ (Cardinality(names) = 3) <=> (given_names(i).s # <<>>)

\* a row with given names and a row without have both been merged
C6_Witness ==
  /\ Loaded
  /\ \E i \in Merged : given_names(i).s # <<>>
  /\ \E i \in Merged : given_names(i).s = <<>>

\* C7: the data graph after k row steps is the union of the statement sets
\* of rows 0..k-1; a step never removes a statement and moves the row
\* position by at most one, forwards.
C7_GrowsInOrder ==
  /\ [](Loaded => data = UNION {row_result(i).rdf : i \in Merged})
  /\ [][/\ data \subseteq data'
        /\ index' \in {index, index + 1}
        /\ (index' = index + 1 => data' = data \cup row_result(index).rdf)]_vars

\* two rows have been merged, each with statements of its own
C7_Witness ==
  /\ Loaded
  /\ index = 2
  /\ row_result(0).rdf # row_result(1).rdf
  /\ row_result(0).rdf \subseteq data
  /\ row_result(1).rdf \subseteq data

\* C8: row i is described under the identifier prisoner_<i>, distinct rows
\* have distinct identifiers, and every statement of the data graph has the
\* identifier of exactly one row of the table as its subject.
C8_UniqueSubjects ==
  Loaded =>
    /\ \A i, j \in 0..(Len(table.rows) - 1) : i # j => prisoner_uri(i) # prisoner_uri(j)
    /\ \A i \in Merged :
         /\ prisoner_uri(i) = DATA_NS \o "prisoner_" \o ToString(i)
         /\ \E t \in data :
              /\ t[1] = prisoner_uri(i)
              /\ t[2] = FOAF \o "familyName"
              /\ t[3].value = convert_person_name(table.rows[i + 1][1])[2]
    /\ \A t \in data :
         Cardinality({i \in 0..(Len(table.rows) - 1) : prisoner_uri(i) = t[1]}) = 1

\* two rows with different family names have been merged
C8_Witness ==
  /\ Loaded
  /\ index = 2
  /\ convert_person_name(table.rows[1][1])[2] # convert_person_name(table.rows[2][1])[2]
  /\ about(0) # {}
  /\ about(1) # {}

\* C9: once mapping row k raises, no later row is mapped, nothing of row k
\* is in the data graph, the schema graph stays empty, no output is written,
\* and the run takes no further step.
C9_AbortsRun ==
  /\ [](Loaded =>
          \A k \in 0..(Len(table.rows) - 1) :
            ~row_result(k).ok =>
              /\ index <= k
              /\ about(k) = {}
              /\ schema = {}
              /\ ~written
              /\ pc \in {"process_rows", "aborted"})
  /\ [][pc # "aborted"]_vars

\* the run was aborted at a row that had statements built, with a row after it
C9_Witness ==
  /\ pc = "aborted"
  /\ row_result(index).rdf # {}
  /\ index + 1 < Len(table.rows)

\* descriptors of the mapping table that carry a label
Labelled == {k \in 1..Len(PRISONER_MAPPING) : "name_fi" \in DOMAIN PRISONER_MAPPING[k]}

\* C4: after process_rows the schema graph holds, for each labelled
\* descriptor, its type statement and its label statement and nothing else,
\* 2*N statements, whatever the rows were.
C4_SchemaFromMapping ==
  pc \in {"serialize", "done"} =>
    /\ schema = UNION {{<<PRISONER_MAPPING[k].uri, RDF \o "type", URIRef(RDF \o "Property")>>,
                        <<PRISONER_MAPPING[k].uri, SKOS \o "prefLabel",
                          Literal(Str(<<PRISONER_MAPPING[k].name_fi>>), "", "fi")>>} :
                       k \in Labelled}
    /\ Cardinality(schema) = 2 * Cardinality(Labelled)
    /\ Cardinality(Labelled) = 36

\* the schema graph was built after rows were processed
C4_Witness ==
  /\ pc = "done"
  /\ Len(table.rows) > 0
  /\ data # {}
  /\ schema # {}

(***************************************************************************)
(* Properties of read_column_with_sources (SpecSources)                    *)
(***************************************************************************)
\* the parenthesized groups of s at nesting depth 0, as <<open, close>>
RECURSIVE TopLevelGroups(_, _, _, _, _)
TopLevelGroups(s, k, depth, open, acc) ==
  IF k > Len(s) THEN acc
  ELSE CASE s[k] = "(" ->
              TopLevelGroups(s, k + 1, depth + 1, IF depth = 0 THEN k ELSE open, acc)
         [] s[k] = ")" ->
              IF depth = 1 THEN TopLevelGroups(s, k + 1, 0, 0, acc \cup {<<open, k>>})
              ELSE TopLevelGroups(s, k + 1, IF depth > 1 THEN depth - 1 ELSE 0, open, acc)
         [] OTHER -> TopLevelGroups(s, k + 1, depth, open, acc)

\* comma-split, trimmed
Labels(s) == LET parts == SplitChar(s, ",") IN [k \in 1..Len(parts) |-> strip(parts[k])]

PlainGroup(i, j) ==
  /\ 2 <= i
  /\ i + 3 <= j
  /\ j <= Len(text)
  /\ text[i] = " "
  /\ text[i + 1] = "("
  /\ text[j] = ")"
  /\ \A k \in (i + 2)..(j - 1) : text[k] # "(" /\ text[k] # ")"

MappedPredicates == {PRISONER_MAPPING[k].uri : k \in 1..Len(PRISONER_MAPPING)}

\* the descriptors that map to a predicate
columns_of(predicate) ==
  {k \in 1..Len(PRISONER_MAPPING) : PRISONER_MAPPING[k].uri = predicate}

\* the field of row i under descriptor k, as text
field(i, k) == py_str(Cell(table.header, table.rows[i + 1], PRISONER_MAPPING[k].column))

absent(v) == v.kind = "none" \/ (v.kind = "str" /\ v.s = <<>>)

\* a literal carrying the date type exactly when the value is a calendar date
typed(v) ==
  [term |-> "literal", value |-> v, lang |-> "", uri |-> "",
   datatype |-> IF v.kind = "date" THEN XSD \o "date" ELSE ""]

split_values(i, k) ==
  LET parts == SplitChar(field(i, k), PRISONER_MAPPING[k].value_separator)
  IN {w \in {Convert(Get(PRISONER_MAPPING[k], "converter", ""), Str(strip(parts[j]))) :
               j \in 1..Len(parts)} : ~absent(w)}

\* C1: for every descriptor that declares a value separator, the objects of
\* a merged row under the descriptor's predicate are the pieces of the field
\* split on that separator and trimmed, one statement per non-absent piece.
C1_SplitOnSeparator ==
  Loaded =>
    \A i \in Merged :
      \A k \in 1..Len(PRISONER_MAPPING) :
        "value_separator" \in DOMAIN PRISONER_MAPPING[k] =>
          objects(i, PRISONER_MAPPING[k].uri) =
            {typed(v) : v \in UNION {split_values(i, c) :
                                       c \in columns_of(PRISONER_MAPPING[k].uri)}}

(***************************************************************************)
(* Properties of a mapping that names a column the table lacks             *)
(***************************************************************************)
Mismatch ==
  \E k \in 1..Len(PRISONER_MAPPING) : ~HasColumn(file.header, PRISONER_MAPPING[k].column)

\* C2 as stated: with a column missing, whatever the number of rows, the
\* run never gets past the error: no row is merged, both graphs stay empty
\* and the run does not go on to serialize.
C2_FatalForEveryTable ==
  (pc # "sources" /\ Mismatch) =>
    /\ index = 0
    /\ data = {}
    /\ schema = {}
    /\ ~written
    /\ pc \in {"read_csv", "process_rows", "aborted"}

\* C2 amended: with a column missing and at least one row, mapping row 0
\* raises; then and before, no row is merged, both graphs are empty and
\* nothing is written.  With no rows no error is raised.
C2_FatalAtFirstRow ==
  (pc # "sources" /\ Mismatch) =>
    IF Len(file.rows) >= 1
    THEN /\ index = 0
         /\ data = {}
         /\ schema = {}
         /\ ~written
         /\ pc \in {"read_csv", "process_rows", "aborted"}
         /\ (pc = "process_rows" => ~row_result(0).ok /\ row_result(0).error = "KeyError")
    ELSE pc # "aborted"

\* the error was raised for a table with rows, after statements of row 0
\* had been built
C2_Witness ==
  /\ Mismatch
  /\ pc = "aborted"
  /\ Len(table.rows) >= 1
  /\ row_result(0).rdf # {}

(***************************************************************************)
(* The one-row example                                                     *)
(***************************************************************************)
ExampleFile ==
  [header |-> FullHeader,
   rows |-> <<raw_row(FullHeader,
                      [nimi |-> <<"M", "e", "i", "k", "ä", "l", "ä", "i", "n", "e", "n", " ", "M", "a", "t", "t", "i">>,
                       birth |-> <<"1", ".", "1", ".", "1", "9", "2", "0">>,
                       place |-> <<>>,
                       occupation |-> <<"M", "a", "a", "n", "v", "i", "l", "j", "e", "l", "i", "j", "ä">>,
                       children |-> <<>>,
                       unit |-> <<>>,
                       burial |-> <<>>])>>]

Plain(s) == [term |-> "literal", value |-> [kind |-> "str", s |-> s, num |-> <<>>],
             datatype |-> "", lang |-> "", uri |-> ""]

ExampleSubject == "http://ldf.fi/warsa/prisoners/prisoner_0"

ExampleNames ==
  {<<ExampleSubject, "http://xmlns.com/foaf/0.1/familyName", Plain(<<"M", "e", "i", "k", "ä", "l", "ä", "i", "n", "e", "n">>)>>,
   <<ExampleSubject, "http://xmlns.com/foaf/0.1/givenName", Plain(<<"M", "a", "t", "t", "i">>)>>,
   <<ExampleSubject, "http://www.w3.org/2004/02/skos/core#prefLabel", Plain(<<"M", "a", "t", "t", "i", " ", "M", "e", "i", "k", "ä", "l", "ä", "i", "n", "e", "n">>)>>}

ExampleBirth ==
  <<ExampleSubject, "http://ldf.fi/schema/warsa/prisoners/birth_date",
    [term |-> "literal", value |-> [kind |-> "date", s |-> <<>>, num |-> <<1920, 1, 1>>],
     datatype |-> "http://www.w3.org/2001/XMLSchema#date", lang |-> "", uri |-> ""]>>

ExampleOccupation(s) == <<ExampleSubject, "http://ldf.fi/schema/bioc/has_occupation", Plain(s)>>

ExampleType ==
  <<ExampleSubject, "http://www.w3.org/1999/02/22-rdf-syntax-ns#type",
    [term |-> "uri", value |-> [kind |-> "none", s |-> <<>>, num |-> <<>>],
     datatype |-> "", lang |-> "",
     uri |-> "http://ldf.fi/schema/warsa/prisoners/PrisonerOfWar"]>>

\* C3 as stated: the example file gives exactly the five statements, the
\* occupation as written in the file.
C3_FiveStatements ==
  (file = ExampleFile /\ pc \in {"serialize", "done"}) =>
    data = ExampleNames \cup {ExampleBirth, ExampleOccupation(<<"M", "a", "a", "n", "v", "i", "l", "j", "e", "l", "i", "j", "ä">>)}

\* C3 amended: the example file gives exactly six statements: the three
\* name statements, the typed birth date, the occupation in lower case, and
\* the statement that the subject is a PrisonerOfWar.
C3_SixStatements ==
  (file = ExampleFile /\ pc \in {"serialize", "done"}) =>
    /\ data = ExampleNames \cup {ExampleBirth, ExampleOccupation(<<"m", "a", "a", "n", "v", "i", "l", "j", "e", "l", "i", "j", "ä">>), ExampleType}
    /\ Cardinality(data) = 6

\* the example file has been processed
C3_Witness ==
  /\ file = ExampleFile
  /\ pc = "done"
  /\ index = 1
  /\ data # {}

====
